---- MODULE Spec2Model ----
(***************************************************************************)
(* Window_TextInput of the Reishandy_TextInput plugin: the multi-line text *)
(* buffer, the caret, the caret-centred viewport window, the pointer-tap   *)
(* mapping and the reconciliation of the hidden HTML input element.        *)
(*                                                                         *)
(* The width-aware class without escaping is plugin v1.0.7, whose text is  *)
(* the file src/Reishandy_TextInput_old.js (processChar at line 723); it   *)
(* is modelled with escapeBackslash = FALSE.  The backslash-escaping class *)
(* is plugin v1.0.3, whose text is the file src/Reishandy_TextInput.js     *)
(* (processChar at line 541); it differs in processChar and                *)
(* processBackspace only and is modelled with escapeBackslash = TRUE.      *)
(*                                                                         *)
(* A line is a sequence of one-character strings.  Rows and columns are    *)
(* zero-based as in the code; Line(s, y) is this._lines[y].  An uncaught   *)
(* TypeError (a read of a property of undefined) aborts the running        *)
(* handler: the assignments made before it are kept, the rest is skipped.  *)
(***************************************************************************)
EXTENDS Integers, Sequences, FiniteSets, TLC

(* ------------------------------ bounds -------------------------------- *)
\* maxLines is drawn from 1..MaxLinesCfg
MaxLinesCfg == 2
\* the hidden input element holds at most MaxInputLen characters
MaxInputLen == 2
\* behaviours are explored while the buffer holds at most MaxChars characters
MaxChars == 3
\* maxLines of the window that is given a glyph wider than its lines
MaxLinesWide == 3
\* maxChars of a name window is drawn from 1..MaxNameChars
MaxNameChars == 2
\* the most refocus callbacks that wait at one time
MaxTimers == 2
\* the actor's name has at most MaxNameLen characters when the window opens
MaxNameLen == 2

(* ----------------------- host metrics (Window_Base) ------------------- *)
\* this.padding
Padding == 1
\* this.lineHeight()
LineHeight == 2
\* this.width of the input window: room for two narrow glyphs
Width == 6
\* this.height of an input window one whole line high
HeightOneLine == 4
\* this.height of an input window less than one line high
HeightNoLine == 3
\* this.height of the input windows two and three whole lines high
HeightTwoLines == 6
HeightThreeLines == 8
\* this.width of an input window with room for one narrow glyph
WidthOneGlyph == 5
\* this.width of an input window with room for three narrow glyphs
WidthEscape == 7
\* this.width of an input window with room for two glyphs ten pixels wide
WidthTap == 28
\* the pixel width textWidth gives a narrow glyph in the 1-pixel metric
GlyphPx == 1
\* the pixel width textWidth gives every glyph in the 10-pixel metric
GlyphPxTap == 10

Min(a, b) == IF a < b THEN a ELSE b
Max(a, b) == IF a > b THEN a ELSE b

\* String.prototype.slice(a, b): negative indices count from the end
slice(str, a, b) ==
    LET n    == Len(str)
        from == IF a < 0 THEN Max(n + a, 0) ELSE Min(a, n)
        to   == IF b < 0 THEN Max(n + b, 0) ELSE Min(b, n)
    IN  IF from >= to THEN <<>> ELSE SubSeq(str, from + 1, to)

\* String.prototype.slice(a)
sliceFrom(str, a) == slice(str, a, Len(str))

\* Array.prototype.splice(at, 0, item): insert item before zero-based index at
spliceInsert(arr, at, item) ==
    SubSeq(arr, 1, at) \o <<item>> \o SubSeq(arr, at + 1, Len(arr))

\* mutant: no element is removed
spliceRemove_none(arr, at) == arr

\* Array.prototype.splice(at, 1): remove the element at zero-based index at
spliceRemove(arr, at) ==
    SubSeq(arr, 1, at) \o SubSeq(arr, at + 2, Len(arr))

RECURSIVE join(_)
\* this._lines.join("\n")
join(arr) ==
    IF arr = <<>> THEN <<>>
    ELSE IF Len(arr) = 1 THEN arr[1]
    ELSE arr[1] \o <<"\n">> \o join(Tail(arr))

RECURSIVE TotalChars(_)
TotalChars(arr) ==
    IF arr = <<>> THEN 0 ELSE Len(Head(arr)) + TotalChars(Tail(arr))

(* ------------------------------- state -------------------------------- *)
VARIABLES
    maxLines,          \* this._maxLines
    escapeBackslash,   \* TRUE: the class that doubles a backslash
    nameInput,         \* TRUE: the window is a Window_NameInput
    maxChars,          \* this._maxChars of a Window_NameInput
    glyphs,            \* the characters the platform delivers in this session
    width,             \* this.width
    height,            \* this.height
    glyphPx,           \* the pixel width of a narrow glyph
    lines,             \* this._lines
    cursorX,           \* this._cursorX
    cursorY,           \* this._cursorY
    visibleStartLine,  \* this._visibleStartLine
    isComposing,       \* this._isComposing
    lastInputValue,    \* this._lastInputValue
    inputValue,        \* the value of the input element
    inputElement,      \* this._inputElement is the element (FALSE: null)
    listeners,         \* the event types with a listener on the element
    attached,          \* the element is a child of document.body
    stored,            \* $gameVariables.value(this._variableId)
    popped,            \* popScene() was called
    mobile,            \* Utils.isMobileDevice()
    timers,            \* the refocus callbacks setTimeout holds
    last,              \* history: the last handler and what it did
    hist               \* history: what the whole run consisted of so far

vars == <<maxLines, escapeBackslash, nameInput, maxChars, glyphs, width, height, glyphPx, lines, cursorX, cursorY,
          visibleStartLine, isComposing, lastInputValue, inputValue,
          inputElement, listeners, attached, stored, popped, mobile, timers,
          last, hist>>

\* the window object as the handlers see it, with the per-handler tallies
This ==
    [lines |-> lines, cursorX |-> cursorX, cursorY |-> cursorY,
     visibleStartLine |-> visibleStartLine, isComposing |-> isComposing,
     lastInputValue |-> lastInputValue, inputValue |-> inputValue,
     inputElement |-> inputElement, listeners |-> listeners,
     attached |-> attached,
     thrown |-> FALSE, nIns |-> 0, nDel |-> 0, nSplit |-> 0, nDrop |-> 0,
     nBuzz |-> 0, nPass |-> 0, nRemoveListener |-> 0, nRemoveChild |-> 0,
     refreshed |-> FALSE, typed |-> <<>>, cursorVisible |-> TRUE,
     nTimer |-> 0]

\* GlyphMetrics: rendered width of one glyph, in pixels
glyphWidth(c) == IF c = "W" THEN 3 * glyphPx ELSE glyphPx

RECURSIVE textWidth(_)
\* this.textWidth(text): the sum of the glyph widths
textWidth(text) ==
    IF text = <<>> THEN 0 ELSE glyphWidth(Head(text)) + textWidth(Tail(text))

\* this.contentsWidth(): the inner width of the window
contentsWidth == width - Padding * 2

\* this._lines[y] is defined
HasLine(s, y) == y >= 0 /\ y < Len(s.lines)
\* this._lines[y]
Line(s, y) == s.lines[y + 1]
\* an uncaught TypeError
Throw(s) == [s EXCEPT !.thrown = TRUE]

\* Math.floor((this.height - this.padding * 2) / this.lineHeight())
maxVisibleLines == (height - Padding * 2) \div LineHeight

\* mutant: the view always starts at the first line
drawTextLines_top(s) == [s EXCEPT !.visibleStartLine = 0]

\* drawTextLines: centre the view on the caret row
drawTextLines(s) ==
    LET centred == Max(0, s.cursorY - (maxVisibleLines \div 2))
        startLine == IF centred + maxVisibleLines > Len(s.lines)
                     THEN Max(0, Len(s.lines) - maxVisibleLines)
                     ELSE centred
    IN  [s EXCEPT !.visibleStartLine = startLine]

\* refresh: contents.clear, drawTextLines, drawCursor (drawCursor only draws);
\* drawTextLines of a Window_NameInput draws line 0 and assigns nothing
refresh(s) ==
    [(IF nameInput THEN s ELSE drawTextLines(s)) EXCEPT !.refreshed = TRUE]

(* --------------------------- cursor movement -------------------------- *)
moveCursorLeft(s) ==
    IF s.cursorX > 0 THEN [s EXCEPT !.cursorX = @ - 1]
    ELSE IF s.cursorY > 0
         THEN [s EXCEPT !.cursorY = @ - 1,
                        !.cursorX = Len(Line(s, s.cursorY - 1))]
         ELSE s

moveCursorRight(s) ==
    IF ~HasLine(s, s.cursorY) THEN Throw(s)
    ELSE IF s.cursorX < Len(Line(s, s.cursorY))
         THEN [s EXCEPT !.cursorX = @ + 1]
         ELSE IF s.cursorY < Len(s.lines) - 1
              THEN [s EXCEPT !.cursorY = @ + 1, !.cursorX = 0]
              ELSE s

\* mutant: the column is kept as it is
moveCursorUp_keepColumn(s) ==
    IF s.cursorY > 0 THEN [s EXCEPT !.cursorY = @ - 1] ELSE s

moveCursorUp(s) ==
    IF s.cursorY > 0
    THEN [s EXCEPT !.cursorY = @ - 1,
                   !.cursorX = Min(s.cursorX, Len(Line(s, s.cursorY - 1)))]
    ELSE s

moveCursorDown(s) ==
    IF s.cursorY < Len(s.lines) - 1
    THEN IF ~HasLine(s, s.cursorY + 1)
         THEN Throw([s EXCEPT !.cursorY = @ + 1])
         ELSE [s EXCEPT !.cursorY = @ + 1,
                        !.cursorX = Min(s.cursorX, Len(Line(s, s.cursorY + 1)))]
    ELSE s

(* ---------------------------- pointer taps ---------------------------- *)
RECURSIVE scanBestPos(_, _, _)
\* the for loop of moveCursorToTouch, from index i on
scanBestPos(line, x, i) ==
    IF i >= Len(line) THEN i
    ELSE LET charStart == textWidth(slice(line, 0, i))
             charWidth == glyphWidth(line[i + 1])
         IN  IF 2 * x < 2 * charStart + charWidth THEN i
             ELSE scanBestPos(line, x, i + 1)

moveCursorToTouch(s, x, y) ==
    LET touchedLine == y \div LineHeight
    IN  IF touchedLine < Len(s.lines)
        THEN IF ~HasLine(s, touchedLine)
             THEN Throw([s EXCEPT !.cursorY = touchedLine])
             ELSE LET bestPos == scanBestPos(Line(s, touchedLine), x, 0)
                  IN  refresh([s EXCEPT !.cursorY = touchedLine,
                                        !.cursorX = Max(0, bestPos - 1)])
        ELSE s

\* ImageManager.faceWidth
FaceWidth == 2

\* the touch positions isTouchedInside accepts, relative to the content origin
\* (the touchX and touchY of updateTouchInput); a Window_NameInput accepts the
\* positions right of the face and from the content top to the window height
TouchXs ==
    IF nameInput THEN (FaceWidth + Padding) .. (width - Padding - 1)
    ELSE (0 - Padding) .. (width - Padding - 1)
TouchYs ==
    IF nameInput THEN 0 .. (height - 1)
    ELSE (0 - Padding) .. (height - Padding - 1)

\* focusHtmlInput: on a mobile device the element is focused again by a
\* callback that setTimeout runs 100 ms later
focusHtmlInput(s) ==
    IF s.thrown THEN s
    ELSE IF s.inputElement /\ mobile THEN [s EXCEPT !.nTimer = @ + 1]
    ELSE s

\* the callback of focusHtmlInput: this._inputElement.focus()
refocus(s) ==
    [(IF ~s.inputElement THEN Throw(s) ELSE s) EXCEPT !.nTimer = @ - 1]

(* --------------------------- text processing -------------------------- *)
\* mutant: the caret keeps its column
splitAtCursor_keepColumn(s) ==
    LET line == Line(s, s.cursorY)
    IN  [s EXCEPT !.lines = spliceInsert([s.lines EXCEPT ![s.cursorY + 1] =
                                              slice(line, 0, s.cursorX)],
                                         s.cursorY + 1, sliceFrom(line, s.cursorX)),
                  !.cursorY = @ + 1]

\* the split both processChar and processNewLine perform at the caret
splitAtCursor(s) ==
    LET line == Line(s, s.cursorY)
        beforeCursor == slice(line, 0, s.cursorX)
        afterCursor == sliceFrom(line, s.cursorX)
    IN  [s EXCEPT !.lines = spliceInsert([s.lines EXCEPT ![s.cursorY + 1] = beforeCursor],
                                         s.cursorY + 1, afterCursor),
                  !.cursorY = @ + 1,
                  !.cursorX = 0]

\* mutant: a backslash is inserted as it is
processedCharOf_plain(char) == <<char>>

\* processChar of the escaping class: a backslash is inserted doubled
processedCharOf(char) ==
    IF escapeBackslash /\ char = "\\" THEN <<"\\", "\\">> ELSE <<char>>

\* mutant: every deletion takes two characters
deleteCount_pair(line, x) == 2

\* processBackspace of the escaping class: an escaped backslash left of the
\* caret is deleted as one unit of two characters
deleteCount(line, x) ==
    IF escapeBackslash /\ slice(line, x - 2, x) = <<"\\", "\\">> THEN 2 ELSE 1

\* mutant: the character is put at the start of the line
potentialLineOf_atStart(line, x, processedChar) ==
    processedChar \o line

\* processChar: the line with the character inserted at the caret
potentialLineOf(line, x, processedChar) ==
    slice(line, 0, x) \o processedChar \o sliceFrom(line, x)

\* processChar: the width available to a line
maxWidth == contentsWidth - Padding * 2

\* mutant: one pixel more than the available width is let through
exceedsWidth_lenient(text) == textWidth(text) > maxWidth + 1

\* processChar: textWidth > maxWidth
exceedsWidth(text) == textWidth(text) > maxWidth

\* mutant: the line is broken even when the buffer is at the cap
underLineCap_offByOne(s) == Len(s.lines) <= maxLines

\* processChar: this._lines.length < this._maxLines
underLineCap(s) == Len(s.lines) < maxLines

\* mutant: a new line is refused only above the cap
atLineCap_offByOne(s) == Len(s.lines) > maxLines

\* processNewLine: this._lines.length >= this._maxLines
atLineCap(s) == Len(s.lines) >= maxLines

RECURSIVE processChar(_, _)
RECURSIVE thisProcessChar(_, _)
\* Window_TextInput.processChar
processChar(s, char) ==
    IF ~HasLine(s, s.cursorY) THEN Throw(s)
    ELSE
    LET line == Line(s, s.cursorY)
        processedChar == processedCharOf(char)
        potentialLine == potentialLineOf(line, s.cursorX, processedChar)
    IN  IF exceedsWidth(potentialLine)
        THEN IF underLineCap(s)
             THEN thisProcessChar([splitAtCursor(s) EXCEPT !.nSplit = @ + 1], char)
             ELSE [s EXCEPT !.nDrop = @ + 1, !.typed = Append(@, char)]
        ELSE refresh([s EXCEPT !.lines[s.cursorY + 1] = potentialLine,
                               !.cursorX = @ + Len(processedChar),
                               !.nIns = @ + 1,
                               !.typed = Append(@, char)])

\* mutant: a character is refused only above maxChars
nameProcessChar_offByOne(s, char) ==
    IF Len(Line(s, 0)) > maxChars
    THEN [s EXCEPT !.nBuzz = @ + 1]
    ELSE processChar(s, char)

\* Window_NameInput.processChar
nameProcessChar(s, char) ==
    IF Len(Line(s, 0)) >= maxChars
    THEN [s EXCEPT !.nBuzz = @ + 1]
    ELSE processChar(s, char)

\* this.processChar(char): the method of the window's own class
thisProcessChar(s, char) ==
    IF nameInput THEN nameProcessChar(s, char) ELSE processChar(s, char)

\* mutant: the column test is >= 0, so a character is deleted at column 0 too
processBackspace_atColumn0(s) ==
    IF s.cursorX >= 0
    THEN IF ~HasLine(s, s.cursorY) THEN Throw(s)
         ELSE LET line == Line(s, s.cursorY)
              IN  refresh([s EXCEPT !.lines[s.cursorY + 1] =
                                        slice(line, 0, s.cursorX - 1)
                                            \o sliceFrom(line, s.cursorX),
                                    !.cursorX = @ - 1,
                                    !.nDel = @ + 1])
    ELSE refresh([s EXCEPT !.nDel = @ + 1])

processBackspace(s) ==
    IF s.cursorX > 0
    THEN IF ~HasLine(s, s.cursorY) THEN Throw(s)
         ELSE LET line == Line(s, s.cursorY)
                  k == deleteCount(line, s.cursorX)
              IN  refresh([s EXCEPT !.lines[s.cursorY + 1] =
                                        slice(line, 0, s.cursorX - k)
                                            \o sliceFrom(line, s.cursorX),
                                    !.cursorX = @ - k,
                                    !.nDel = @ + 1])
    ELSE IF s.cursorY > 0
         THEN LET line == Line(s, s.cursorY)
                  previousLine == Line(s, s.cursorY - 1)
              IN  refresh([s EXCEPT !.cursorX = Len(previousLine),
                                    !.lines = spliceRemove(
                                        [s.lines EXCEPT ![s.cursorY] = previousLine \o line],
                                        s.cursorY),
                                    !.cursorY = @ - 1,
                                    !.nDel = @ + 1])
         ELSE refresh([s EXCEPT !.nDel = @ + 1])

processNewLine(s) ==
    IF atLineCap(s) THEN s
    ELSE IF ~HasLine(s, s.cursorY) THEN Throw(s)
    ELSE refresh(splitAtCursor(s))

(* --------------------------- reconciliation --------------------------- *)
RECURSIVE processChars(_, _)
\* for (const char of newText) this.processChar(char)
processChars(s, newText) ==
    IF newText = <<>> \/ s.thrown THEN s
    ELSE processChars(thisProcessChar(s, Head(newText)), Tail(newText))

RECURSIVE processBackspaces(_, _)
\* for (let i = 0; i < deletedCount; i++) this.processBackspace()
processBackspaces(s, deletedCount) ==
    IF deletedCount <= 0 \/ s.thrown THEN s
    ELSE processBackspaces(processBackspace(s), deletedCount - 1)

processInputDifference(s0) ==
    LET s == [s0 EXCEPT !.nPass = @ + 1]
        currentValue == s.inputValue
        previousValue == s.lastInputValue
        edited ==
            IF Len(currentValue) > Len(previousValue)
            THEN processChars(s, sliceFrom(currentValue, Len(previousValue)))
            ELSE IF Len(currentValue) < Len(previousValue)
                 THEN processBackspaces(s, Len(previousValue) - Len(currentValue))
                 ELSE s
    IN  IF ~s.inputElement THEN Throw(s)
        ELSE IF edited.thrown THEN edited
        ELSE refresh([edited EXCEPT !.lastInputValue = currentValue])

\* mutant: the listener does not look at the composition flag
onInput_always(s) == processInputDifference(s)

\* the "input" listener (_boundOnInputChange)
onInput(s) ==
    IF ~s.isComposing THEN processInputDifference(s) ELSE s

\* the "compositionstart" listener
onCompositionStart(s) == [s EXCEPT !.isComposing = TRUE]

\* the "compositionend" listener
onCompositionEnd(s) == processInputDifference([s EXCEPT !.isComposing = FALSE])

Keys == {"ArrowLeft", "ArrowRight", "ArrowUp", "ArrowDown", "Backspace", "Enter"}

\* the tail shared by the arrow and Enter cases of the keydown listener
clearInput(s) ==
    IF s.thrown THEN s
    ELSE IF ~s.inputElement THEN Throw([s EXCEPT !.lastInputValue = <<>>])
    ELSE refresh([s EXCEPT !.lastInputValue = <<>>, !.inputValue = <<>>])

\* the "keydown" listener (_boundHandleKeyDown)
handleKeyDown(s, key) ==
    CASE key = "ArrowLeft"  -> clearInput(moveCursorLeft(s))
      [] key = "ArrowRight" -> clearInput(moveCursorRight(s))
      [] key = "ArrowUp"    -> clearInput(moveCursorUp(s))
      [] key = "ArrowDown"  -> clearInput(moveCursorDown(s))
      [] key = "Backspace"  ->
            LET d == processBackspace(s)
            IN  IF d.thrown THEN d
                ELSE IF ~d.inputElement THEN Throw(d)
                ELSE refresh([d EXCEPT !.lastInputValue = d.inputValue])
      [] key = "Enter"      -> clearInput(processNewLine(s))

(* ------------------------------ teardown ------------------------------ *)
\* the event types createHtmlInput registers a listener for
Registered == {"compositionstart", "compositionend", "input", "keydown"}

\* the event types whose listener destroy() removes
Removed == {"input", "keydown"}

\* mutant: destroy without the test of this._inputElement
destroy_unguarded(s) ==
    [s EXCEPT !.listeners = @ \ Removed,
              !.attached = FALSE,
              !.inputElement = FALSE,
              !.nRemoveListener = @ + Cardinality(Removed),
              !.nRemoveChild = @ + 1]

\* Window_TextInput.destroy, up to the call of super.destroy()
destroy(s) ==
    IF s.inputElement
    THEN [s EXCEPT !.listeners = @ \ Removed,
                   !.attached = FALSE,
                   !.inputElement = FALSE,
                   !.nRemoveListener = @ + Cardinality(Removed),
                   !.nRemoveChild = @ + 1]
    ELSE s

(* ------------------------------- confirm ------------------------------ *)
\* the characters String.prototype.trim removes
WhiteSpace == {" ", "\n", "\t"}

RECURSIVE trimStart(_)
trimStart(text) ==
    IF text # <<>> /\ Head(text) \in WhiteSpace THEN trimStart(Tail(text))
    ELSE text

RECURSIVE trimEnd(_)
trimEnd(text) ==
    IF text # <<>> /\ text[Len(text)] \in WhiteSpace
    THEN trimEnd(SubSeq(text, 1, Len(text) - 1))
    ELSE text

\* String.prototype.trim
trim(text) == trimEnd(trimStart(text))

\* a game variable that was never set
Unset == [type |-> "unset", num |-> 0, str |-> <<>>]
\* the number 0 as the value of a game variable
Zero == [type |-> "number", num |-> 0, str |-> <<>>]
\* a string as the value of a game variable
String(text) == [type |-> "string", num |-> 0, str |-> text]

\* mutant: the empty text is stored as a string
valueToStore_noDefault(s) ==
    String(IF escapeBackslash THEN join(s.lines) ELSE trim(join(s.lines)))

\* onInputOk: inputText().trim() || 0 in v1.0.7, inputText() || 0 in v1.0.3
valueToStore(s) ==
    LET text == IF escapeBackslash THEN join(s.lines) ELSE trim(join(s.lines))
    IN  IF text = <<>> THEN Zero ELSE String(text)

(* --------------------- plugin v1.0.0 (src/TextInput.js) ---------------- *)
\* this.width of the v1.0.0 input window: a line takes two characters
WidthV100 == 14

\* the pixels processChar of v1.0.0 counts per character
CharPx == 10

\* the event types createHtmlInput of v1.0.0 registers a listener for
Registered_v100 == {"input", "keydown"}

\* drawText and drawCursor of v1.0.0: the first drawn line
startLine_v100(s) == Max(0, Len(s.lines) - maxVisibleLines)

\* refresh of v1.0.0: drawText assigns nothing; drawCursor, when the cursor
\* is in the visible half of its blink, reads this._lines[this._cursorY]
refresh_v100(s) ==
    IF s.thrown THEN s
    ELSE IF s.cursorVisible /\ ~HasLine(s, s.cursorY) THEN Throw(s)
    ELSE [s EXCEPT !.refreshed = TRUE]

\* processChar of v1.0.0: line.length < this.contentsWidth() / 10
hasRoom_v100(line) == CharPx * Len(line) < contentsWidth

processChar_v100(s, char) ==
    IF ~HasLine(s, s.cursorY) THEN Throw(s)
    ELSE LET line == Line(s, s.cursorY)
             processedChar == processedCharOf(char)
         IN  IF hasRoom_v100(line)
             THEN [s EXCEPT !.lines[s.cursorY + 1] =
                               slice(line, 0, s.cursorX) \o processedChar
                                   \o sliceFrom(line, s.cursorX),
                           !.cursorX = @ + Len(processedChar),
                           !.nIns = @ + 1,
                           !.typed = Append(@, char)]
             ELSE [s EXCEPT !.nDrop = @ + 1, !.typed = Append(@, char)]

processBackspace_v100(s) ==
    IF ~HasLine(s, s.cursorY) /\ (s.cursorX > 0 \/ s.cursorY > 0) THEN Throw(s)
    ELSE IF s.cursorX > 0
    THEN LET line == Line(s, s.cursorY)
             k == deleteCount(line, s.cursorX)
         IN  refresh_v100([s EXCEPT !.lines[s.cursorY + 1] =
                                       slice(line, 0, s.cursorX - k)
                                           \o sliceFrom(line, s.cursorX),
                                   !.cursorX = @ - k,
                                   !.nDel = @ + 1])
    ELSE IF s.cursorY > 0
         THEN LET line == Line(s, s.cursorY)
                  previousLine == Line(s, s.cursorY - 1)
              IN  refresh_v100([s EXCEPT !.cursorX = Len(previousLine),
                                        !.lines = spliceRemove(
                                            [s.lines EXCEPT ![s.cursorY] = previousLine \o line],
                                            s.cursorY),
                                        !.cursorY = @ - 1,
                                        !.nDel = @ + 1])
         ELSE refresh_v100([s EXCEPT !.nDel = @ + 1])

processNewLine_v100(s) ==
    IF Len(s.lines) >= maxLines THEN s
    ELSE IF ~HasLine(s, s.cursorY) THEN Throw(s)
    ELSE refresh_v100(splitAtCursor(s))

RECURSIVE processChars_v100(_, _)
\* for (const char of value) this.processChar(char)
processChars_v100(s, value) ==
    IF value = <<>> \/ s.thrown THEN s
    ELSE processChars_v100(processChar_v100(s, Head(value)), Tail(value))

\* the "input" listener of v1.0.0
onInputChange_v100(s) ==
    IF s.inputValue # <<>>
    THEN LET r == IF s.inputValue = <<"\n">> THEN processNewLine_v100(s)
                  ELSE processChars_v100(s, s.inputValue)
         IN  IF r.thrown THEN r
             ELSE refresh_v100([r EXCEPT !.inputValue = <<>>])
    ELSE s

\* the "keydown" listener of v1.0.0
handleKeyDown_v100(s, key) ==
    refresh_v100(
        CASE key = "ArrowLeft"  -> moveCursorLeft(s)
          [] key = "ArrowRight" -> moveCursorRight(s)
          [] key = "ArrowUp"    -> moveCursorUp(s)
          [] key = "ArrowDown"  -> moveCursorDown(s)
          [] key = "Backspace"  -> processBackspace_v100(s)
          [] key = "Enter"      -> processNewLine_v100(s))

RECURSIVE scanNearest(_, _, _, _, _)
\* the for loop of moveCursorToTouch of v1.0.0, from index i on: the
\* boundary nearest to x, the first one among equals
scanNearest(line, x, i, bestPos, bestDiff) ==
    IF i > Len(line) THEN bestPos
    ELSE LET w == textWidth(slice(line, 0, i))
             diff == IF w >= x THEN w - x ELSE x - w
         IN  IF diff < bestDiff THEN scanNearest(line, x, i + 1, i, diff)
             ELSE scanNearest(line, x, i + 1, bestPos, bestDiff)

moveCursorToTouch_v100(s, x, y) ==
    LET touchedLine == y \div LineHeight
    IN  IF touchedLine < Len(s.lines)
        THEN IF ~HasLine(s, touchedLine)
             THEN Throw([s EXCEPT !.cursorY = touchedLine])
             ELSE LET line == Line(s, touchedLine)
                      first == IF x >= 0 THEN x ELSE 0 - x
                  IN  refresh_v100([s EXCEPT !.cursorY = touchedLine,
                                            !.cursorX = scanNearest(line, x, 1, 0, first)])
        ELSE s

\* destroy of v1.0.0: both removeEventListener calls are given a function
\* made by a new bind, which no listener is, so they remove nothing
destroy_v100(s) ==
    IF s.inputElement
    THEN [s EXCEPT !.attached = FALSE,
                   !.inputElement = FALSE,
                   !.nRemoveChild = @ + 1]
    ELSE s

\* what onInputOk leaves in the target and whether it pops the scene:
\* Scene_NameInput sets the actor's name, and only if the trimmed name is not
\* empty
onInputOk(s) ==
    IF nameInput
    THEN LET name == trim(join(s.lines))
         IN  IF name # <<>> THEN [stored |-> String(name), popped |-> TRUE]
             ELSE [stored |-> stored, popped |-> popped]
    ELSE [stored |-> valueToStore(s), popped |-> TRUE]

(* ------------------------------ actions ------------------------------- *)
\* store the window r as the next state; last records the handler op, whether
\* it threw, whether it left lines and caret as they were, and its tallies
Commit(r, op) ==
    /\ TotalChars(r.lines) <= MaxChars
    /\ lines' = r.lines
    /\ cursorX' = r.cursorX
    /\ cursorY' = r.cursorY
    /\ visibleStartLine' = r.visibleStartLine
    /\ isComposing' = r.isComposing
    /\ lastInputValue' = r.lastInputValue
    /\ inputValue' = r.inputValue
    /\ inputElement' = r.inputElement
    /\ listeners' = r.listeners
    /\ attached' = r.attached
    /\ last' = [op |-> op, thrown |-> r.thrown,
                noop |-> (r.lines = lines /\ r.cursorX = cursorX /\ r.cursorY = cursorY),
                nIns |-> r.nIns, nDel |-> r.nDel, nSplit |-> r.nSplit,
                nDrop |-> r.nDrop, nBuzz |-> r.nBuzz, nPass |-> r.nPass,
                nRemoveListener |-> r.nRemoveListener,
                nRemoveChild |-> r.nRemoveChild,
                refreshed |-> r.refreshed]
    /\ timers' = timers + r.nTimer
    /\ UNCHANGED <<maxLines, escapeBackslash, nameInput, maxChars, glyphs,
                   width, height, glyphPx, stored, popped, mobile>>

HistFresh == [kind |-> "fresh", typed |-> <<>>, n |-> 0, d |-> 0, single |-> TRUE]
HistMixed == [kind |-> "mixed", typed |-> <<>>, n |-> 0, d |-> 0, single |-> TRUE]

\* the history after a handler that ran the reconciliation pass r: "chars"
\* while the run consisted of processChar calls only, none of which overflowed
\* the width; typed is the concatenation of the characters they were given
\* and n their number.  "shrink" while such a run has been followed by
\* processBackspace calls only, d in number.  single: no pass so far made
\* more than one call.
HistAfterPass(r) ==
    IF /\ hist.kind \in {"fresh", "chars"}
       /\ ~r.thrown /\ r.nDel = 0 /\ r.nSplit = 0 /\ r.nDrop = 0
    THEN [kind |-> IF r.nIns > 0 THEN "chars" ELSE hist.kind,
          typed |-> hist.typed \o r.typed,
          n |-> hist.n + r.nIns,
          d |-> 0,
          single |-> hist.single /\ r.nIns <= 1]
    ELSE IF /\ hist.kind \in {"chars", "shrink"}
            /\ ~r.thrown /\ r.nIns = 0 /\ r.nSplit = 0 /\ r.nDrop = 0
         THEN [kind |-> "shrink",
               typed |-> hist.typed,
               n |-> hist.n,
               d |-> hist.d + r.nDel,
               single |-> hist.single /\ r.nDel <= 1]
         ELSE HistMixed

\* the command argument maxLines: absent (or empty), or a number as text
MaxLinesArg(n) == [given |-> TRUE, number |-> n]
NoMaxLinesArg == [given |-> FALSE, number |-> 0]

\* the plugin parameter DefaultMaxLines
DEFAULT_MAX_LINES == 10

\* the OpenTextInput command: args.maxLines ? Number(args.maxLines) : default
commandMaxLines(arg) ==
    IF arg.given THEN arg.number ELSE DEFAULT_MAX_LINES

\* a device that is not a mobile device: focusHtmlInput sets no timer
InitDesktop == mobile = FALSE /\ timers = 0

\* the fields initialize() and createHtmlInput() set, whatever maxLines is
\* and whichever listeners are registered
InitFields ==
    /\ nameInput = FALSE
    /\ maxChars = 0
    /\ lines = << <<>> >>
    /\ cursorX = 0
    /\ cursorY = 0
    /\ visibleStartLine = 0
    /\ isComposing = FALSE
    /\ lastInputValue = <<>>
    /\ inputValue = <<>>
    /\ inputElement = TRUE
    /\ attached = TRUE
    /\ stored = Unset
    /\ popped = FALSE
    /\ last = [op |-> "initialize", thrown |-> FALSE, noop |-> FALSE,
               nIns |-> 0, nDel |-> 0, nSplit |-> 0, nDrop |-> 0, nBuzz |-> 0,
               nPass |-> 0, nRemoveListener |-> 0, nRemoveChild |-> 0,
               refreshed |-> TRUE]
    /\ hist = HistFresh

\* the state initialize() leaves, for either class, with a valid maxLines
InitWindow ==
    /\ maxLines \in {commandMaxLines(MaxLinesArg(n)) : n \in 1 .. MaxLinesCfg}
    /\ InitFields
    /\ listeners = Registered
    /\ InitDesktop

\* the width-aware class without escaping (plugin v1.0.7)
Init ==
    /\ escapeBackslash = FALSE
    /\ glyphs = {"a", "b"}
    /\ width = Width
    /\ height = HeightOneLine
    /\ glyphPx = GlyphPx
    /\ InitWindow

\* the same class in a window too low for one whole line
InitShort ==
    /\ escapeBackslash = FALSE
    /\ glyphs = {"a", "b"}
    /\ width = Width
    /\ height = HeightNoLine
    /\ glyphPx = GlyphPx
    /\ InitWindow

\* the backslash-escaping class (plugin v1.0.3)
InitEscape ==
    /\ escapeBackslash = TRUE
    /\ glyphs = {"a", "\\"}
    /\ width = WidthEscape
    /\ height = HeightOneLine
    /\ glyphPx = GlyphPx
    /\ InitWindow

\* the class of plugin v1.0.7 with a single line, every glyph ten pixels wide
InitTap ==
    /\ escapeBackslash = FALSE
    /\ glyphs = {"a", "b"}
    /\ width = WidthTap
    /\ height = HeightOneLine
    /\ glyphPx = GlyphPxTap
    /\ InitWindow
    /\ maxLines = 1

\* the names an actor can have when the name window opens
ActorNames == UNION {[1 .. n -> {"a", "b"}] : n \in 0 .. MaxNameLen}

\* Window_NameInput.initialize: one line holding the actor's name, the caret
\* at its end
InitName ==
    /\ escapeBackslash = FALSE
    /\ glyphs = {"a", "b"}
    /\ width = Width
    /\ height = HeightOneLine
    /\ glyphPx = GlyphPx
    /\ nameInput = TRUE
    /\ maxChars \in 1 .. MaxNameChars
    /\ maxLines = 1
    /\ \E name \in ActorNames :
          /\ lines = <<name>>
          /\ cursorX = Len(name)
    /\ cursorY = 0
    /\ visibleStartLine = 0
    /\ isComposing = FALSE
    /\ lastInputValue = <<>>
    /\ inputValue = <<>>
    /\ inputElement = TRUE
    /\ listeners = Registered
    /\ InitDesktop
    /\ attached = TRUE
    /\ stored = Unset
    /\ popped = FALSE
    /\ last = [op |-> "initialize", thrown |-> FALSE, noop |-> FALSE,
               nIns |-> 0, nDel |-> 0, nSplit |-> 0, nDrop |-> 0, nBuzz |-> 0,
               nPass |-> 0, nRemoveListener |-> 0, nRemoveChild |-> 0,
               refreshed |-> TRUE]
    /\ hist = HistFresh

\* Window_TextInput of plugin v1.0.0: it escapes a backslash, has no
\* composition listeners and keeps no last observed value
InitV100 ==
    /\ escapeBackslash = TRUE
    /\ glyphs = {"a", "\\"}
    /\ width = WidthV100
    /\ height = HeightOneLine
    /\ glyphPx = GlyphPxTap
    /\ maxLines \in {commandMaxLines(MaxLinesArg(n)) : n \in 1 .. MaxLinesCfg}
    /\ InitFields
    /\ listeners = Registered_v100
    /\ InitDesktop

\* the class of plugin v1.0.7 with up to MaxLinesWide lines, in windows two
\* and three lines high, typed a narrow glyph and a glyph wider than a line
InitWide ==
    /\ escapeBackslash = FALSE
    /\ glyphs = {"a", "W"}
    /\ width = Width
    /\ height \in {HeightTwoLines, HeightThreeLines}
    /\ glyphPx = GlyphPx
    /\ maxLines = commandMaxLines(MaxLinesArg(MaxLinesWide))
    /\ InitFields
    /\ listeners = Registered
    /\ InitDesktop

\* the class of plugin v1.0.7 opened by a command whose maxLines argument is
\* 0 or 1
InitConfig ==
    /\ escapeBackslash = FALSE
    /\ glyphs = {"a", "b"}
    /\ width = Width
    /\ height = HeightOneLine
    /\ glyphPx = GlyphPx
    /\ maxLines \in {commandMaxLines(MaxLinesArg(n)) : n \in 0 .. 1}
    /\ InitFields
    /\ listeners = Registered
    /\ InitDesktop

\* the class of plugin v1.0.7 with an input element whose value may hold a
\* line feed
InitNewline ==
    /\ escapeBackslash = FALSE
    /\ glyphs = {"a", "\n"}
    /\ width = Width
    /\ height = HeightOneLine
    /\ glyphPx = GlyphPx
    /\ maxLines = commandMaxLines(MaxLinesArg(MaxLinesCfg))
    /\ InitFields
    /\ listeners = Registered
    /\ InitDesktop

\* the class of plugin v1.0.7 on a mobile device: createHtmlInput has called
\* focusHtmlInput, whose callback waits
InitMobile ==
    /\ escapeBackslash = FALSE
    /\ glyphs = {"a", "b"}
    /\ width = Width
    /\ height = HeightOneLine
    /\ glyphPx = GlyphPx
    /\ maxLines = commandMaxLines(MaxLinesArg(1))
    /\ InitFields
    /\ listeners = Registered
    /\ mobile = TRUE
    /\ timers = 1

\* the class of plugin v1.0.7 in a window whose lines hold one glyph
InitPasses ==
    /\ escapeBackslash = FALSE
    /\ glyphs = {"a", "b"}
    /\ width = WidthOneGlyph
    /\ height = HeightOneLine
    /\ glyphPx = GlyphPx
    /\ InitWindow

\* the values the platform can leave in the input element
InputValues == UNION {[1 .. n -> glyphs] : n \in 0 .. MaxInputLen}

\* the platform changes the element's value and dispatches "input"
InputEvent ==
    \E v \in InputValues :
        /\ "input" \in listeners /\ ~popped
        /\ v # inputValue
        /\ LET r == onInput([This EXCEPT !.inputValue = v])
           IN  /\ Commit(r, "input")
               /\ hist' = IF isComposing THEN hist ELSE HistAfterPass(r)

CompositionStart ==
    /\ "compositionstart" \in listeners /\ ~popped
    /\ Commit(onCompositionStart(This), "compositionstart")
    /\ hist' = hist

CompositionEnd ==
    /\ "compositionend" \in listeners /\ ~popped
    /\ isComposing
    /\ LET r == onCompositionEnd(This)
       IN  /\ Commit(r, "compositionend")
           /\ hist' = HistAfterPass(r)

KeyDown ==
    \E key \in Keys :
        /\ "keydown" \in listeners /\ ~popped
        /\ Commit(handleKeyDown(This, key), key)
        /\ hist' = IF key = "Enter" /\ hist.kind \in {"fresh", "enters"}
                   THEN [kind |-> "enters", typed |-> <<>>,
                         n |-> Min(hist.n + 1, MaxLinesCfg + 1),
                         d |-> 0, single |-> TRUE]
                   ELSE HistMixed

\* update() with a triggered touch inside the window (updateTouchInput)
\* the scene updates the window until it is terminated
Touch ==
    \E x \in TouchXs, y \in TouchYs :
        /\ inputElement /\ ~popped
        /\ mobile => timers < MaxTimers
        /\ Commit(focusHtmlInput(moveCursorToTouch(This, x, y)), "touch")
        /\ hist' = HistMixed

\* Scene_TextInput.onInputOk, from the OK button or from Shift+Enter: the
\* scene manager then replaces the scene, and the window is followed no
\* further than its teardown
Ok ==
    /\ inputElement /\ ~popped
    /\ stored' = onInputOk(This).stored
    /\ popped' = onInputOk(This).popped
    /\ last' = [last EXCEPT !.op = "ok", !.thrown = FALSE, !.noop = TRUE,
                            !.nIns = 0, !.nDel = 0, !.nSplit = 0, !.nDrop = 0,
                            !.nBuzz = 0, !.nPass = 0, !.nRemoveListener = 0,
                            !.nRemoveChild = 0, !.refreshed = FALSE]
    /\ hist' = HistMixed
    /\ UNCHANGED <<maxLines, escapeBackslash, nameInput, maxChars, glyphs,
                   width, height, glyphPx, lines, cursorX, cursorY, visibleStartLine, isComposing,
                   lastInputValue, inputValue, inputElement, listeners,
                   attached, mobile, timers>>

\* Scene_TextInput.terminate, and every later destroy of the window
Destroy ==
    /\ Commit(destroy(This), "destroy")
    /\ hist' = HistMixed

(* actions of plugin v1.0.0 *)
InputEvent_v100 ==
    \E v \in InputValues, cv \in BOOLEAN :
        /\ "input" \in listeners /\ inputElement /\ ~popped
        /\ v # inputValue
        /\ Commit(onInputChange_v100([This EXCEPT !.inputValue = v,
                                                 !.cursorVisible = cv]), "input")
        /\ hist' = HistMixed

KeyDown_v100 ==
    \E key \in Keys, cv \in BOOLEAN :
        /\ "keydown" \in listeners /\ inputElement /\ ~popped
        /\ Commit(handleKeyDown_v100([This EXCEPT !.cursorVisible = cv], key), key)
        /\ hist' = HistMixed

Touch_v100 ==
    \E x \in TouchXs, y \in TouchYs, cv \in BOOLEAN :
        /\ inputElement /\ ~popped
        /\ Commit(moveCursorToTouch_v100([This EXCEPT !.cursorVisible = cv], x, y),
                  "touch")
        /\ hist' = HistMixed

\* Scene_TextInput.onInputOk of v1.0.0: the text is stored as it is
Ok_v100 ==
    /\ inputElement /\ ~popped
    /\ stored' = String(join(lines))
    /\ popped' = TRUE
    /\ last' = [last EXCEPT !.op = "ok", !.thrown = FALSE, !.noop = TRUE,
                            !.nIns = 0, !.nDel = 0, !.nSplit = 0, !.nDrop = 0,
                            !.nBuzz = 0, !.nPass = 0, !.nRemoveListener = 0,
                            !.nRemoveChild = 0, !.refreshed = FALSE]
    /\ hist' = HistMixed
    /\ UNCHANGED <<maxLines, escapeBackslash, nameInput, maxChars, glyphs,
                   width, height, glyphPx, lines, cursorX, cursorY,
                   visibleStartLine, isComposing, lastInputValue, inputValue,
                   inputElement, listeners, attached, mobile, timers>>

Destroy_v100 ==
    /\ Commit(destroy_v100(This), "destroy")
    /\ hist' = HistMixed

\* the timer of focusHtmlInput expires and its callback runs
TimerFires ==
    /\ timers > 0
    /\ Commit(refocus(This), "timer")
    /\ hist' = hist

Next_v100 ==
    \/ InputEvent_v100
    \/ KeyDown_v100
    \/ Touch_v100
    \/ Ok_v100
    \/ Destroy_v100

Next ==
    \/ InputEvent
    \/ CompositionStart
    \/ CompositionEnd
    \/ KeyDown
    \/ Touch
    \/ Ok
    \/ Destroy

\* the handlers on a mobile device
Next_mobile ==
    \/ InputEvent
    \/ CompositionStart
    \/ CompositionEnd
    \/ KeyDown
    \/ Touch
    \/ Ok
    \/ Destroy
    \/ TimerFires

\* the handlers that run the reconciliation pass, and the start of a
\* composition that holds it back
Next_passes ==
    \/ InputEvent
    \/ CompositionStart
    \/ CompositionEnd

Spec == Init /\ [][Next]_vars

SpecShort == InitShort /\ [][Next]_vars

SpecEscape == InitEscape /\ [][Next]_vars

SpecTap == InitTap /\ [][Next]_vars

SpecConfig == InitConfig /\ [][Next]_vars

SpecName == InitName /\ [][Next]_vars

SpecWide == InitWide /\ [][Next]_vars

SpecNewline == InitNewline /\ [][Next]_vars

SpecMobile == InitMobile /\ [][Next_mobile]_vars

SpecPasses == InitPasses /\ [][Next_passes]_vars

SpecV100 == InitV100 /\ [][Next_v100]_vars

(* ------------------------------ claims -------------------------------- *)
\* the caret row is a row of the buffer
CaretOnLine == cursorY >= 0 /\ cursorY < Len(lines)

\* the caret is a valid (row, column) pair
CaretValid ==
    /\ CaretOnLine
    /\ 0 <= cursorX
    /\ cursorX <= Len(lines[cursorY + 1])

\* the handler result r left the lines and the caret as they are
SameBuffer(r) ==
    r.lines = lines /\ r.cursorX = cursorX /\ r.cursorY = cursorY

\* C1: after any sequence of handlers the buffer holds at least one line and
\* at most maxLines lines.
C1_LineCount == 1 <= Len(lines) /\ Len(lines) <= maxLines

\* a character was dropped with the buffer at a cap of more than one line
C1_Witness == maxLines > 1 /\ Len(lines) = maxLines /\ last.nDrop > 0

\* C2: after every handler the caret is valid: 0 <= cursorY < lines.length
\* and 0 <= cursorX <= lines[cursorY].length.
C2_CaretValid == CaretValid

\* C3: processBackspace with the caret at (0,0), once or repeatedly, and the
\* Backspace key handler there, change neither the lines nor the caret.
C3_BackspaceAtOrigin ==
    (cursorX = 0 /\ cursorY = 0) =>
        /\ \A n \in 1 .. MaxInputLen + 1 :
              LET r == processBackspaces(This, n)
              IN  SameBuffer(r) /\ ~r.thrown /\ r.nDel = n
        /\ SameBuffer(handleKeyDown(This, "Backspace"))

\* Backspace was pressed at (0,0) of a buffer that holds text, to no effect
C3_Witness ==
    /\ last.op = "Backspace" /\ last.noop /\ ~last.thrown
    /\ cursorX = 0 /\ cursorY = 0
    /\ TotalChars(lines) > 0

\* C4: while the run consists of processChar calls only, none overflowing the
\* width, with characters concatenating to T, the buffer is the single line
\* T, the caret is at (0, length(T)) and inputText() is T.
C4_RoundTrip ==
    hist.kind = "chars" =>
        /\ lines = <<hist.typed>>
        /\ cursorY = 0
        /\ cursorX = Len(hist.typed)
        /\ join(lines) = hist.typed

\* two different characters were typed, filling the line
C4_Witness == hist.kind = "chars" /\ hist.typed = <<"a", "b">>

\* C5: processNewLine with the buffer at maxLines changes neither the lines
\* nor the caret, and a run of more than maxLines - 1 Enter keys from the
\* initial state leaves exactly maxLines lines.
C5_NewLineAtCap ==
    /\ Len(lines) = maxLines => SameBuffer(processNewLine(This))
    /\ (hist.kind = "enters" /\ hist.n > maxLines - 1) => Len(lines) = maxLines

\* Enter was pressed more than maxLines - 1 times, the last time to no effect
C5_Witness ==
    /\ hist.kind = "enters" /\ hist.n > maxLines - 1
    /\ maxLines > 1
    /\ last.op = "Enter" /\ last.noop

\* C6: with a line exactly at capacity and the buffer below maxLines,
\* processChar at any caret column of that line adds exactly one line, and the
\* two resulting lines concatenate to the line with the character inserted at
\* the caret.
C6_WrapKeepsText ==
    \A c \in glyphs :
        (/\ CaretValid
         /\ textWidth(lines[cursorY + 1]) = contentsWidth - Padding * 2
         /\ Len(lines) < maxLines)
        => LET line == lines[cursorY + 1]
               r == processChar(This, c)
           IN  /\ Len(r.lines) = Len(lines) + 1
               /\ r.lines[cursorY + 1] \o r.lines[cursorY + 2]
                    = SubSeq(line, 1, cursorX) \o <<c>>
                        \o SubSeq(line, cursorX + 1, Len(line))

\* C7: processChar with a candidate line wider than the available width and
\* the buffer at maxLines drops the character: lines and caret are unchanged.
C7_DropAtCap ==
    \A c \in glyphs :
        (/\ CaretValid
         /\ Len(lines) = maxLines
         /\ LET line == lines[cursorY + 1]
            IN  textWidth(SubSeq(line, 1, cursorX) \o <<c>>
                            \o SubSeq(line, cursorX + 1, Len(line)))
                    > contentsWidth - Padding * 2)
        => LET r == processChar(This, c)
           IN  SameBuffer(r) /\ r.nIns = 0 /\ r.nDrop = 1 /\ ~r.thrown

\* one typed character was dropped at the cap without a line break
C7_Witness ==
    /\ last.op = "input" /\ last.nDrop = 1 /\ last.nSplit = 0 /\ last.nIns = 0
    /\ last.noop
    /\ Len(lines) = maxLines

\* C8: after every refresh with the caret on a line, the window satisfies
\* visibleStartLine >= 0 and
\* visibleStartLine <= cursorY < visibleStartLine + maxVisibleLines.
C8_CaretInWindow ==
    (last.refreshed /\ CaretOnLine) =>
        /\ visibleStartLine >= 0
        /\ visibleStartLine <= cursorY
        /\ cursorY < visibleStartLine + maxVisibleLines

\* C9: an "input" event while the composition flag is set changes neither the
\* lines, the caret nor the last observed value and runs no reconciliation
\* pass; an "input" event while the flag is clear runs exactly one pass.
C9_InputAndComposition ==
    [][last'.op = "input" =>
          IF isComposing
          THEN /\ lines' = lines /\ cursorX' = cursorX /\ cursorY' = cursorY
               /\ lastInputValue' = lastInputValue
               /\ last'.nPass = 0
          ELSE last'.nPass = 1]_vars

\* an "input" event that lengthened the element's value was ignored
C9_Witness ==
    /\ last.op = "input" /\ isComposing /\ last.nPass = 0
    /\ Len(inputValue) > Len(lastInputValue)

\* C10: a compositionend event clears the composition flag and runs exactly
\* one reconciliation pass, which applies the whole length change of the
\* element's value: afterwards the last observed value is the element's value.
C10_CompositionEnd ==
    last.op = "compositionend" =>
        /\ ~isComposing
        /\ last.nPass = 1
        /\ lastInputValue = inputValue

\* C13: when the keydown handler has processed an arrow key, Backspace or
\* Enter, the last observed value and the element's value are both empty.
C13_KeyDownResets ==
    last.op \in Keys => lastInputValue = <<>> /\ inputValue = <<>>

\* C11: a reconciliation pass from the last observed value P to the element's
\* value C makes one processChar call per character of C[len(P):], in order,
\* and no processBackspace call when C is longer; exactly len(P) - len(C)
\* processBackspace calls and no processChar call when C is shorter; and no
\* call when the lengths are equal.
C11_PassEdits ==
    \A v \in InputValues :
        LET r == processInputDifference([This EXCEPT !.inputValue = v])
            P == lastInputValue
        IN  IF Len(v) > Len(P)
            THEN r.typed = sliceFrom(v, Len(P)) /\ r.nDel = 0
            ELSE IF Len(v) < Len(P)
                 THEN r.nDel = Len(P) - Len(v) /\ r.typed = <<>>
                 ELSE r.typed = <<>> /\ r.nDel = 0

\* C12: from the empty buffer, a run of passes that lengthen the observed
\* value up to S without overflow, followed by passes that shorten it back to
\* the empty string, makes len(S) insertions and len(S) deletions and leaves
\* the empty text; on the way down the buffer holds len(S) characters less
\* one per deletion.
C12_GrowThenShrink ==
    hist.kind = "shrink" =>
        /\ hist.n = Len(hist.typed)
        /\ TotalChars(lines) = Len(hist.typed) - hist.d
        /\ lastInputValue = <<>> =>
              /\ hist.d = Len(hist.typed)
              /\ join(lines) = <<>>

\* "" -> "a" -> "ab" -> "a" -> "" was observed, one character at a time
C12_Witness ==
    /\ hist.kind = "shrink" /\ hist.single
    /\ hist.typed = <<"a", "b">>
    /\ hist.n = 2 /\ hist.d = 2
    /\ lastInputValue = <<>>
    /\ lines = << <<>> >>

\* the column the pointer rule gives a tap at x on line L: the first index i
\* with x < width(L[0:i]) + width(L[i]) / 2, else length(L)
TapColumn(L, x) ==
    LET S == {i \in 0 .. Len(L) - 1 :
                2 * x < 2 * textWidth(SubSeq(L, 1, i)) + glyphWidth(L[i + 1])}
    IN  IF S = {} THEN Len(L) ELSE CHOOSE i \in S : \A j \in S : i <= j

\* C14: a tap at horizontal offset x on a line L of the buffer sets the caret
\* column to the first index i with x < width(L[0:i]) + width(L[i]) / 2, and
\* to length(L) when there is none.
C14_TapColumn ==
    \A x \in TouchXs, y \in TouchYs :
        HasLine(This, y \div LineHeight) =>
            moveCursorToTouch(This, x, y).cursorX
                = TapColumn(lines[(y \div LineHeight) + 1], x)

\* C16: a tap at any vertical offset y sets the caret row to
\* floor(y / lineHeight) clamped into 0 .. lines.length - 1.
C16_TapRow ==
    \A x \in TouchXs, y \in TouchYs :
        moveCursorToTouch(This, x, y).cursorY
            = Max(0, Min(y \div LineHeight, Len(lines) - 1))

\* C17: once destroy has set the element reference to null, a further call
\* of destroy removes no listener and no DOM child, raises no error and
\* leaves the window as it is.
C17_DestroyIdempotent ==
    ~inputElement =>
        LET r == destroy(This)
        IN  /\ r = This
            /\ r.nRemoveListener = 0 /\ r.nRemoveChild = 0 /\ ~r.thrown
            /\ ~r.inputElement

\* destroy was called on a window already torn down
C17_Witness ==
    /\ last.op = "destroy" /\ last.nRemoveChild = 0 /\ last.nRemoveListener = 0
    /\ ~last.thrown /\ ~inputElement /\ ~attached

\* C18: after destroy no listener that createHtmlInput registered is left on
\* the element, and the element is detached.
C18_NoListenerLeft ==
    ~inputElement => listeners = {} /\ ~attached

C15_TapExample ==
    (glyphPx = 10 /\ lines[1] = <<"a", "b">>) =>
        /\ moveCursorToTouch(This, 4, 0).cursorX = 0
        /\ moveCursorToTouch(This, 16, 0).cursorX = 1
        /\ moveCursorToTouch(This, 25, 0).cursorX = 2

C21_ConfigRejected ==
    /\ 1 <= maxLines /\ maxLines <= 100
    /\ width > 0 /\ height > 0

\* C22: a Window_NameInput always holds exactly one line; its processChar
\* leaves lines and caret as they are when the name has maxChars characters
\* or more; and after a handler that inserted a character the name is no
\* longer than maxChars.
C22_NameLength ==
    nameInput =>
        /\ Len(lines) = 1
        /\ \A c \in glyphs :
              Len(lines[1]) >= maxChars =>
                  LET r == thisProcessChar(This, c)
                  IN  SameBuffer(r) /\ r.nIns = 0 /\ r.nBuzz = 1
        /\ last.nIns > 0 => Len(lines[1]) <= maxChars

\* two characters arrived in one pass: the first filled the name, the second
\* was refused
C22_Witness ==
    /\ nameInput
    /\ last.op = "input" /\ last.nIns = 1 /\ last.nBuzz = 1
    /\ Len(lines[1]) = maxChars

\* C23: in v1.0.0, when a typed character does not fit on the caret line and
\* the buffer is below maxLines, processChar places the character on a
\* following line: the buffer gains a line and the character is not lost.
C23_V100Wraps ==
    \A c \in glyphs :
        (/\ CaretValid
         /\ ~(CharPx * Len(lines[cursorY + 1]) < contentsWidth)
         /\ Len(lines) < maxLines)
        => LET r == processChar_v100(This, c)
           IN  /\ Len(r.lines) = Len(lines) + 1
               /\ TotalChars(r.lines) > TotalChars(lines)

\* C24: for any buffer, valid caret and character, one processChar call
\* splits a line at most once.
C24_OneSplit ==
    \A c \in glyphs :
        CaretValid => processChar(This, c).nSplit <= 1

\* C25: for any buffer, valid caret and character, a glyph wider than the
\* whole available width included, processChar returns, having split at most
\* maxLines minus the line count at entry times, with the buffer within
\* maxLines and the character either inserted once or dropped once.
C25_SplitsBounded ==
    \A c \in glyphs :
        (CaretValid /\ Len(lines) <= maxLines) =>
            LET r == processChar(This, c)
            IN  /\ r.nSplit <= maxLines - Len(lines)
                /\ Len(r.lines) = Len(lines) + r.nSplit
                /\ r.nIns + r.nDrop = 1
                /\ ~r.thrown

\* the glyph wider than a line was typed into the one-line buffer: the line
\* was split down to the cap and the glyph dropped
C25_Witness ==
    /\ last.op = "input" /\ last.nSplit = maxLines - 1 /\ last.nDrop = 1
    /\ last.nIns = 0
    /\ Len(lines) = maxLines /\ maxLines = MaxLinesWide
    /\ TotalChars(lines) = 0

\* line without its character number i (counted from 1)
RemoveAt(line, i) ==
    [k \in 1..(Len(line) - 1) |-> IF k < i THEN line[k] ELSE line[k + 1]]

\* C26: with a valid caret, processBackspace at a column above 0 removes
\* exactly the character left of the caret and moves the caret one column
\* left; at column 0 of a row above 0 it appends the line to the previous
\* one, puts the caret at (row - 1, former length of the previous line) and
\* the buffer is one line shorter; every other line is as it was.
C26_Backspace ==
    CaretValid =>
        LET r == processBackspace(This)
        IN  /\ ~r.thrown
            /\ cursorX > 0 =>
                    /\ r.lines = [lines EXCEPT ![cursorY + 1] = RemoveAt(@, cursorX)]
                    /\ r.cursorX = cursorX - 1
                    /\ r.cursorY = cursorY
            /\ (cursorX = 0 /\ cursorY > 0) =>
                    /\ Len(r.lines) = Len(lines) - 1
                    /\ r.cursorY = cursorY - 1
                    /\ r.cursorX = Len(lines[cursorY])
                    /\ \A i \in 1..Len(r.lines) :
                           r.lines[i] = IF i < cursorY THEN lines[i]
                                        ELSE IF i = cursorY
                                             THEN lines[cursorY] \o lines[cursorY + 1]
                                             ELSE lines[i + 1]

\* Backspace has just merged two lines: a deleted character would have left
\* fewer than MaxChars characters
C26_Witness ==
    /\ last.op = "Backspace" /\ ~last.noop /\ ~last.thrown
    /\ TotalChars(lines) = MaxChars
    /\ Len(lines) = 2 /\ cursorY = 0 /\ cursorX = 1
    /\ Len(lines[1]) = 2

\* C27: with a valid caret and the buffer below maxLines, processNewLine
\* leaves the part before the caret on the row and the part after it on the
\* next row, puts the caret at (row + 1, 0), makes the buffer one line longer
\* and leaves every other line as it was; a processBackspace right after it
\* gives back the original lines and caret.
C27_NewLine ==
    (CaretValid /\ Len(lines) < maxLines) =>
        LET n == processNewLine(This)
            b == processBackspace(n)
            line == lines[cursorY + 1]
        IN  /\ ~n.thrown
            /\ Len(n.lines) = Len(lines) + 1
            /\ n.cursorY = cursorY + 1
            /\ n.cursorX = 0
            /\ \A i \in 1..Len(n.lines) :
                   n.lines[i] = IF i < cursorY + 1 THEN lines[i]
                                ELSE IF i = cursorY + 1
                                     THEN SubSeq(line, 1, cursorX)
                                     ELSE IF i = cursorY + 2
                                          THEN SubSeq(line, cursorX + 1, Len(line))
                                          ELSE lines[i - 1]
            /\ ~b.thrown
            /\ b.lines = lines
            /\ b.cursorX = cursorX
            /\ b.cursorY = cursorY

\* Enter has just split a line between two of its characters, with another
\* line below it
C27_Witness ==
    /\ last.op = "Enter" /\ ~last.noop /\ ~last.thrown
    /\ Len(lines) = 3 /\ cursorY = 1 /\ cursorX = 0
    /\ Len(lines[1]) = 1 /\ Len(lines[2]) = 1

\* C28: with a valid caret, no cursor movement changes a line; moveCursorLeft
\* at column 0 of a row above 0 goes to the end of the previous line,
\* moveCursorRight at the end of a line that is not the last goes to column 0
\* of the next, moveCursorUp and moveCursorDown change the row by one and make
\* the column the smaller of the old column and the length of the line gone
\* to, and at the edges of the buffer a movement changes nothing.
C28_Navigation ==
    CaretValid =>
        LET l == moveCursorLeft(This)
            r == moveCursorRight(This)
            u == moveCursorUp(This)
            d == moveCursorDown(This)
            lastRow == Len(lines) - 1
            len == Len(lines[cursorY + 1])
        IN  /\ \A m \in {l, r, u, d} : m.lines = lines /\ ~m.thrown
            /\ l.cursorY = (IF cursorX = 0 /\ cursorY > 0 THEN cursorY - 1 ELSE cursorY)
            /\ l.cursorX = (IF cursorX > 0 THEN cursorX - 1
                            ELSE IF cursorY > 0 THEN Len(lines[cursorY]) ELSE 0)
            /\ r.cursorY = (IF cursorX = len /\ cursorY < lastRow
                            THEN cursorY + 1 ELSE cursorY)
            /\ r.cursorX = (IF cursorX < len THEN cursorX + 1
                            ELSE IF cursorY < lastRow THEN 0 ELSE cursorX)
            /\ u.cursorY = (IF cursorY > 0 THEN cursorY - 1 ELSE cursorY)
            /\ u.cursorX = (IF cursorY > 0 THEN Min(cursorX, Len(lines[cursorY]))
                            ELSE cursorX)
            /\ d.cursorY = (IF cursorY < lastRow THEN cursorY + 1 ELSE cursorY)
            /\ d.cursorX = (IF cursorY < lastRow
                            THEN Min(cursorX, Len(lines[cursorY + 2]))
                            ELSE cursorX)

\* ArrowUp has just moved the caret from a column past the end of the line
\* above to the end of that line
C28_Witness ==
    /\ last.op = "ArrowUp" /\ ~last.noop /\ ~last.thrown
    /\ Len(lines) = 2 /\ cursorY = 0
    /\ Len(lines[1]) = 1 /\ cursorX = 1
    /\ Len(lines[2]) = 2

\* clamp(x, lo, hi)
clamp(x, lo, hi) == Max(lo, Min(x, hi))

\* C29: for every buffer of at least one line, every valid caret row and a
\* visible-line count v of at least 1, drawTextLines starts at line
\* clamp(caretRow - floor(v / 2), 0, max(0, lineCount - v)); so does the
\* window after every refresh.
C29_StartLine ==
    maxVisibleLines >= 1 =>
        /\ \A cy \in 0..(Len(lines) - 1) :
               drawTextLines([This EXCEPT !.cursorY = cy]).visibleStartLine =
                   clamp(cy - (maxVisibleLines \div 2), 0,
                         Max(0, Len(lines) - maxVisibleLines))
        /\ (last.refreshed /\ ~last.thrown /\ CaretOnLine) =>
               visibleStartLine =
                   clamp(cursorY - (maxVisibleLines \div 2), 0,
                         Max(0, Len(lines) - maxVisibleLines))

\* a window two lines high shows lines 1 and 2 of three, the caret on the last
C29_Witness ==
    /\ last.refreshed /\ ~last.thrown
    /\ maxVisibleLines = 2 /\ Len(lines) = 3 /\ cursorY = 2
    /\ visibleStartLine = 1

\* C30: the visible-line count is at least 1.
C30_VisibleAtLeastOne == maxVisibleLines >= 1

\* C31: in the window of v1.0.0 the caret row is one of the drawn rows:
\* startLine <= cursorY < startLine + maxVisibleLines.
C31_CaretDrawn_v100 ==
    CaretOnLine =>
        /\ startLine_v100(This) <= cursorY
        /\ cursorY < startLine_v100(This) + maxVisibleLines

\* C32: after every reconciliation pass the last-observed value equals the
\* value of the input element, and a second pass run at once applies no edit.
C32_PassSyncs ==
    last.nPass >= 1 =>
        /\ lastInputValue = inputValue
        /\ LET r == processInputDifference(This)
           IN  /\ r.nIns = 0 /\ r.nDel = 0 /\ r.nDrop = 0 /\ r.nSplit = 0
               /\ SameBuffer(r)

C34_RefocusSafe ==
    last.op = "timer" => (~last.thrown /\ last.noop)

\* C35: in every reachable state every line is at most as wide as the
\* available width, contentsWidth - 2 * padding.
C35_LinesFit ==
    \A i \in 1 .. Len(lines) : textWidth(lines[i]) <= maxWidth

\* C36: in a run of reconciliation passes alone, from the empty buffer and
\* the empty input element, the buffer text is empty whenever the value of
\* the input element is empty after a pass.
C36_EmptyAgain ==
    (last.nPass >= 1 /\ inputValue = <<>>) => join(lines) = <<>>

\* C37: while the view is scrolled, a tap on the i-th displayed line puts the
\* caret on row visibleStartLine + i, the buffer line drawn there.
C37_TapScrolled ==
    visibleStartLine > 0 =>
        \A x \in TouchXs, y \in TouchYs :
            LET i == y \div LineHeight
            IN  (y >= 0 /\ i < maxVisibleLines /\ visibleStartLine + i < Len(lines)) =>
                    moveCursorToTouch(This, x, y).cursorY = visibleStartLine + i

RECURSIVE Concat(_)
\* the lines one after another, nothing between them
Concat(ls) == IF ls = <<>> THEN <<>> ELSE Head(ls) \o Concat(Tail(ls))

\* the position of the caret in Concat(lines)
CaretOffset == TotalChars(SubSeq(lines, 1, cursorY)) + cursorX

\* processNewLine, the merge of processBackspace, the cursor movements and
\* the taps keep the characters and their order
MovesConserve ==
    /\ Concat(processNewLine(This).lines) = Concat(lines)
    /\ (cursorX = 0 /\ cursorY > 0) =>
           Concat(processBackspace(This).lines) = Concat(lines)
    /\ \A m \in {moveCursorLeft(This), moveCursorRight(This),
                  moveCursorUp(This), moveCursorDown(This)} :
           Concat(m.lines) = Concat(lines)
    /\ \A x \in TouchXs, y \in TouchYs :
           Concat(moveCursorToTouch(This, x, y).lines) = Concat(lines)

\* C38: with a valid caret, processNewLine, the merge of processBackspace,
\* cursor movements and taps leave the concatenation of the lines as it is;
\* processChar either inserts its character at the caret's position in the
\* concatenation or, when it drops the character, changes neither the lines
\* nor the caret and splits no line.
C38_Conserved ==
    CaretValid =>
        /\ MovesConserve
        /\ \A c \in glyphs :
               LET r == processChar(This, c)
                   all == Concat(lines)
               IN  IF r.nDrop > 0
                   THEN SameBuffer(r) /\ r.nSplit = 0
                   ELSE Concat(r.lines) =
                            SubSeq(all, 1, CaretOffset) \o <<c>>
                                \o SubSeq(all, CaretOffset + 1, Len(all))

RECURSIVE RunLength(_, _)
\* the number of backslashes in a row from position k of the line on
RunLength(line, k) ==
    IF k > Len(line) \/ line[k] # "\\" THEN 0
    ELSE 1 + RunLength(line, k + 1)

\* C39: in the class that doubles a backslash, every maximal run of
\* backslashes in every line has even length.
C39_PairsWhole ==
    \A i \in 1 .. Len(lines) :
        \A k \in 1 .. Len(lines[i]) :
            (lines[i][k] = "\\" /\ (k = 1 \/ lines[i][k - 1] # "\\")) =>
                RunLength(lines[i], k) % 2 = 0
====
